---- MODULE Spec2Model ----
(***************************************************************************)
(* YCDataExtractor (src/unnamed/part_000): one run of main(), i.e. one     *)
(* call of extractData followed by the write of the output file.           *)
(*                                                                         *)
(* The remote servers (the search index, the identity provider, the        *)
(* portal) are the environment: every response is drawn from a small set   *)
(* of shapes, failure included.  `log` is the history of what the run did  *)
(* to the outside world: requests issued, timers awaited, file written.    *)
(*                                                                         *)
(* JavaScript objects are functions from field names to values; a field    *)
(* that is undefined is a field outside the DOMAIN.  A string that the     *)
(* code only copies is an opaque TLA+ string; '' is "".                    *)
(***************************************************************************)
EXTENDS Integers, Sequences, FiniteSets, TLC

VARIABLES
    pc,             \* position of the single thread of control
    maxCompanies,   \* argument of extractData
    hitsPerPage,    \* extractData local
    numPages,       \* extractData local (NaN when maxCompanies = 0)
    page,           \* discovery loop counter
    allCompanyIds,  \* extractData local
    i,              \* fetch loop counter
    allCompanies,   \* extractData local
    session,        \* YCDataExtractor.session
    loginPageResponse, \* login local
    loginResponse,     \* login local
    result,         \* value returned by extractData (Null before it returns)
    error,          \* error that reached main's catch (Null if none)
    file,           \* content of yc_companies_data.json (Null: not written)
    log             \* history: requests, delays, file writes, in order

vars == <<pc, maxCompanies, hitsPerPage, numPages, page, allCompanyIds, i,
          allCompanies, session, loginPageResponse, loginResponse, result,
          error, file, log>>

----------------------------------------------------------------------------
(* Bounds and program constants *)

MaxSmallTarget == 3

MaxHitsPerPage == 100

batchSize == 20

DiscoveryDelayMs == 1000

BatchDelayMs == 2000

\* The values of maxCompanies explored: every small one, and the ones around
\* the batch size and the page size.
Targets == (0 .. MaxSmallTarget) \cup {19, 20, 21, 40, 45, 100, 101, 150}

\* null / undefined for a variable that otherwise holds one value v: <<>>
\* against <<v>>
Null == <<>>

Some(v) == <<v>>

\* NaN, the value of Math.ceil(0 / 0); no count of this model is negative
NaN == 0 - 1

----------------------------------------------------------------------------
(* JavaScript helpers *)

Min(a, b) == IF a <= b THEN a ELSE b

\* Math.ceil(a / b) for a, b >= 0; 0 / 0 is NaN
CeilDiv(a, b) == IF b = 0 THEN NaN ELSE (a + b - 1) \div b

\* a < b, false when either side is NaN
Less(a, b) == a # NaN /\ b # NaN /\ a < b

\* a - 1, NaN when a is NaN
Minus1(a) == IF a = NaN THEN NaN ELSE a - 1

\* Array.prototype.slice(from, to), 0-based, `to` exclusive and clamped
Slice(s, from, to) == SubSeq(s, from + 1, Min(to, Len(s)))

EmptyObj == [x \in {} |-> x]

Has(o, f) == f \in DOMAIN o

\* { f: o.f } with an undefined value left out
Pass(o, f) == IF Has(o, f) THEN f :> o[f] ELSE EmptyObj

\* o.f || d for a string or array field (undefined and '' are falsy)
OrElse(o, f, d) == IF Has(o, f) /\ o[f] # "" THEN o[f] ELSE d

\* o.f || [] for an array field (an array, even empty, is truthy)
OrEmpty(o, f) == IF Has(o, f) THEN o[f] ELSE <<>>

RECURSIVE Concat(_)
Concat(ss) == IF ss = <<>> THEN <<>> ELSE Head(ss) \o Concat(Tail(ss))

----------------------------------------------------------------------------
(* The environment: what the remote servers may answer *)

\* One Set-Cookie header line, "name=value; Path=/; HttpOnly"
SetCookieLine(name, value) ==
    [pair |-> [name |-> name, value |-> value], attrs |-> "Path=/; HttpOnly"]

\* The responses are explored in all their shapes for the runs of less than
\* one full discovery page (at most three batches); the longer runs explore
\* the paging and the batching, and there the login flow is answered in one
\* way and a batch in two.
Exhaustive == maxCompanies < MaxHitsPerPage

\* The headers of the k-th response of the login flow: one set-cookie header
\* that sets the cookie "sid" to a value of its own, or no such header
ResponseHeaders(k) ==
    { "set-cookie" :> << SetCookieLine("sid", k) >> }
    \cup (IF Exhaustive THEN { EmptyObj } ELSE {})

\* An HTML body: the csrf-token meta tag is absent, or present with a content
HtmlBodies(token) == { [csrfMeta |-> Null], [csrfMeta |-> Some("")],
                       [csrfMeta |-> Some(token)] }

LoginPageResponses ==
    { [headers |-> h, data |-> b] : h \in ResponseHeaders(1),
                                    b \in HtmlBodies("tokA") }

SignInResponses == { [headers |-> h] : h \in ResponseHeaders(2) }

PortalResponses ==
    { [headers |-> h, data |-> b] :
        h \in ResponseHeaders(3),
        b \in { [csrfMeta |-> Some("tokW")] }
               \cup (IF Exhaustive THEN { [csrfMeta |-> Null] } ELSE {}) }

\* The numbers of hits the search index may return for one page: none, one,
\* a full page, or twice the page size asked for
HitCounts(hpp) == {0, 1, hpp, 2 * hpp}

\* The k-th hit of page p when pages hold hpp hits (k from 1)
Hit(p, hpp, k) == [company_id |-> p * hpp + k]

\* { results: [{ hits, nbHits }] }, or { results: [] }
AlgoliaResponses(p, hpp) ==
    { [results |-> << [hits |-> [k \in 1 .. n |-> Hit(p, hpp, k)],
                       nbHits |-> n] >>] : n \in HitCounts(hpp) }
    \cup { [results |-> << >>] }

JobOf(id, j) ==
    [id |-> 10 * id + j]
    @@ (IF (id + j) % 3 = 0 THEN EmptyObj
        ELSE "title" :> (IF (id + j) % 3 = 1 THEN "Engineer" ELSE "Designer"))
    @@ (IF j % 2 = 0 THEN "pretty_role" :> "eng" ELSE EmptyObj)

\* The Company the portal holds under `id`
CompanyOf(id) ==
    [id |-> id, team_size |-> id]
    @@ (IF id % 3 = 0 THEN EmptyObj
        ELSE "name" :> (IF id % 3 = 1 THEN "Acme" ELSE ""))
    @@ (IF id % 2 = 0 THEN "website" :> "https://acme.example" ELSE EmptyObj)
    @@ (IF id % 5 = 0 THEN EmptyObj ELSE "founders" :> << [full_name |-> "F"] >>)
    @@ (IF id % 4 = 3 THEN EmptyObj
        ELSE "jobs" :> [j \in 1 .. (id % 3) |-> JobOf(id, j)])

Reverse(s) == [k \in 1 .. Len(s) |-> s[Len(s) + 1 - k]]

\* { companies: [...] } in the order asked, or without the first id and in
\* reverse order, or a body without the companies field
CompanyResponses(ids) ==
    { "companies" :> [k \in 1 .. Len(ids) |-> CompanyOf(ids[k])],
      "companies" :> Reverse([k \in 1 .. Len(ids) - 1 |-> CompanyOf(ids[k + 1])]) }
    \cup (IF Exhaustive THEN { EmptyObj } ELSE {})

----------------------------------------------------------------------------
(* Pure functions of the extractor *)

\* cookie.split(';')[0]
FirstPart(line) == line.pair

\* lines.map(cookie => cookie.split(';')[0]).join('; '): the Cookie header,
\* as the list of its name=value pairs ('' is the empty list)
CookieHeader(lines) == [k \in 1 .. Len(lines) |-> FirstPart(lines[k])]

\* response.headers['set-cookie'] || []
SetCookies(response) == OrEmpty(response.headers, "set-cookie")

\* data.match(/name="csrf-token" content="([^"]+)"/), then m ? m[1] : ''
CsrfToken(data) ==
    IF data.csrfMeta # Null /\ data.csrfMeta[1] # "" THEN data.csrfMeta[1]
    ELSE ""

\* response.data.results[0]?.hits?.map(hit => hit.company_id) || []
CompanyIds(response) ==
    IF response.results = << >> THEN << >>
    ELSE LET hits == response.results[1].hits
         IN  [k \in 1 .. Len(hits) |-> hits[k].company_id]

FormatJob(job) ==
    [name |-> OrElse(job, "title", "")]
    @@ Pass(job, "pretty_min_experience") @@ Pass(job, "pretty_job_type")
    @@ Pass(job, "pretty_role") @@ Pass(job, "pretty_salary_range")

FormatCompany_DropUntitled(company) ==
    [name |-> OrElse(company, "name", ""),
     website |-> OrElse(company, "website", ""),
     founders |-> OrEmpty(company, "founders"),
     jobs |-> LET jobs == SelectSeq(OrEmpty(company, "jobs"),
                                    LAMBDA job : "title" \in DOMAIN job)
              IN  [j \in 1 .. Len(jobs) |-> FormatJob(jobs[j])]]
    @@ Pass(company, "team_size") @@ Pass(company, "primary_vertical")
    @@ Pass(company, "website_display") @@ Pass(company, "country")

FormatCompany(company) ==
    [name |-> OrElse(company, "name", ""),
     website |-> OrElse(company, "website", ""),
     founders |-> OrEmpty(company, "founders"),
     jobs |-> LET jobs == OrEmpty(company, "jobs")
              IN  [j \in 1 .. Len(jobs) |-> FormatJob(jobs[j])]]
    @@ Pass(company, "team_size") @@ Pass(company, "primary_vertical")
    @@ Pass(company, "website_display") @@ Pass(company, "country")

formatCompanyData(companies) ==
    [k \in 1 .. Len(companies) |-> FormatCompany(companies[k])]

----------------------------------------------------------------------------
(* Control *)

\* An error of the HTTP client (a refused, failed or timed-out request)
AxiosError(request) == [request |-> request]

CsrfError == [message |-> "Failed to extract CSRF token from login page"]

\* login's catch: throw new Error(`Login failed: ${error}`)
LoginError(e) == [message |-> "Login failed", cause |-> e]

PageSize_Fixed(n) == MaxHitsPerPage

\* Math.min(maxCompanies, 100)
PageSize(n) == Min(n, MaxHitsPerPage)

MissingCsrf_Never(token) == FALSE

\* if (!csrfToken) in login
MissingCsrf(token) == token = ""

Truncated_None == allCompanyIds

\* allCompanyIds.slice(0, maxCompanies)
Truncated == Slice(allCompanyIds, 0, maxCompanies)

NeedsLogin_Always == TRUE

\* if (!this.session) in fetchCompanyDetails
NeedsLogin == session = Null

MorePages_AtLeastOnce ==
    page = 0 \/ (Less(page, numPages) /\ Len(allCompanyIds) < maxCompanies)

\* for (...; page < numPages && allCompanyIds.length < maxCompanies; ...)
MorePages == Less(page, numPages) /\ Len(allCompanyIds) < maxCompanies

\* if (page < numPages - 1) after a discovery call
DelayAfterPage == Less(page, Minus1(numPages))

\* for (...; i < allCompanyIds.length; ...)
MoreBatches == i < Len(allCompanyIds)

Batch_Overlap == Slice(allCompanyIds, i, i + batchSize + 1)

\* allCompanyIds.slice(i, i + batchSize)
Batch == Slice(allCompanyIds, i, i + batchSize)

\* if (i + batchSize < allCompanyIds.length) after a batch
DelayAfterBatch == i + batchSize < Len(allCompanyIds)

Throw_ReturnPartial(e) ==
    /\ pc' = "returned"
    /\ result' = Some(formatCompanyData(allCompanies))
    /\ UNCHANGED <<error, file>>

\* An error thrown inside extractData: its catch rethrows, main's catch
\* reports it and exits with status 1; nothing is returned or written.
Throw(e) ==
    /\ pc' = "exit1"
    /\ error' = Some(e)
    /\ UNCHANGED <<result, file>>

Init ==
    /\ pc = "main"
    /\ maxCompanies \in Targets
    /\ hitsPerPage = 0
    /\ numPages = 0
    /\ page = 0
    /\ allCompanyIds = << >>
    /\ i = 0
    /\ allCompanies = << >>
    /\ session = Null
    /\ loginPageResponse = Null
    /\ loginResponse = Null
    /\ result = Null
    /\ error = Null
    /\ file = Null
    /\ log = << >>

\* main calls extractData, which computes the page size and the page count
ExtractDataBegin ==
    /\ pc = "main"
    /\ hitsPerPage' = PageSize(maxCompanies)
    /\ numPages' = CeilDiv(maxCompanies, PageSize(maxCompanies))
    /\ page' = 0
    /\ allCompanyIds' = << >>
    /\ pc' = "discovery"
    /\ UNCHANGED <<maxCompanies, i, allCompanies, session, loginPageResponse,
                   loginResponse, result, error, file, log>>

\* One pass of the discovery loop: fetchCompanyIds(page, hitsPerPage) answers
FetchCompanyIds ==
    /\ pc = "discovery"
    /\ MorePages
    /\ \E response \in AlgoliaResponses(page, hitsPerPage) :
          /\ allCompanyIds' = allCompanyIds \o CompanyIds(response)
          /\ log' = Append(log, [op |-> "discovery", ok |-> TRUE,
                                 page |-> page, hitsPerPage |-> hitsPerPage,
                                 response |-> response])
    /\ IF DelayAfterPage
       THEN pc' = "discoveryDelay" /\ page' = page
       ELSE pc' = "discovery" /\ page' = page + 1
    /\ UNCHANGED <<maxCompanies, hitsPerPage, numPages, i, allCompanies,
                   session, loginPageResponse, loginResponse, result, error,
                   file>>

\* fetchCompanyIds: the request fails; its catch rethrows
FetchCompanyIdsFails ==
    /\ pc = "discovery"
    /\ MorePages
    /\ log' = Append(log, [op |-> "discovery", ok |-> FALSE, page |-> page,
                           hitsPerPage |-> hitsPerPage])
    /\ Throw(AxiosError("discovery"))
    /\ UNCHANGED <<maxCompanies, hitsPerPage, numPages, page, allCompanyIds,
                   i, allCompanies, session, loginPageResponse, loginResponse>>

\* await new Promise(resolve => setTimeout(resolve, 1000)), then page++
DiscoveryDelay ==
    /\ pc = "discoveryDelay"
    /\ log' = Append(log, [op |-> "delay", ms |-> DiscoveryDelayMs])
    /\ page' = page + 1
    /\ pc' = "discovery"
    /\ UNCHANGED <<maxCompanies, hitsPerPage, numPages, allCompanyIds, i,
                   allCompanies, session, loginPageResponse, loginResponse,
                   result, error, file>>

\* The discovery loop ends: truncate, return [] if nothing was found
DiscoveryEnd ==
    /\ pc = "discovery"
    /\ ~MorePages
    /\ allCompanyIds' = Truncated
    /\ IF Len(allCompanyIds') = 0
       THEN pc' = "returned" /\ result' = Some(<< >>)
       ELSE pc' = "batches" /\ result' = result
    /\ i' = 0
    /\ allCompanies' = << >>
    /\ UNCHANGED <<maxCompanies, hitsPerPage, numPages, page, session,
                   loginPageResponse, loginResponse, error, file, log>>

\* The fetch loop calls fetchCompanyDetails(batch), which logs in first if
\* there is no session
FetchCompanyDetailsBegin ==
    /\ pc = "batches"
    /\ MoreBatches
    /\ pc' = IF NeedsLogin THEN "loginPage" ELSE "fetch"
    /\ UNCHANGED <<maxCompanies, hitsPerPage, numPages, page, allCompanyIds,
                   i, allCompanies, session, loginPageResponse, loginResponse,
                   result, error, file, log>>

\* login, step 1: GET the login page, extract the CSRF token
LoginPage ==
    /\ pc = "loginPage"
    /\ \E response \in LoginPageResponses :
          /\ log' = Append(log, [op |-> "loginPage", ok |-> TRUE,
                                 response |-> response])
          /\ loginPageResponse' = Some(response)
          /\ IF MissingCsrf(CsrfToken(response.data))
             THEN Throw(LoginError(CsrfError))
             ELSE pc' = "signIn" /\ UNCHANGED <<result, error, file>>
    /\ UNCHANGED <<maxCompanies, hitsPerPage, numPages, page, allCompanyIds,
                   i, allCompanies, session, loginResponse>>

LoginPageFails ==
    /\ pc = "loginPage"
    /\ log' = Append(log, [op |-> "loginPage", ok |-> FALSE])
    /\ Throw(LoginError(AxiosError("loginPage")))
    /\ UNCHANGED <<maxCompanies, hitsPerPage, numPages, page, allCompanyIds,
                   i, allCompanies, session, loginPageResponse, loginResponse>>

\* login, step 2: POST the credentials with the token and the initial cookies
SignIn ==
    /\ pc = "signIn"
    /\ \E response \in SignInResponses :
          /\ log' = Append(log,
                [op |-> "signIn", ok |-> TRUE,
                 cookie |-> CookieHeader(SetCookies(loginPageResponse[1])),
                 csrfToken |-> CsrfToken(loginPageResponse[1].data),
                 response |-> response])
          /\ loginResponse' = Some(response)
    /\ pc' = "portal"
    /\ UNCHANGED <<maxCompanies, hitsPerPage, numPages, page, allCompanyIds,
                   i, allCompanies, session, loginPageResponse, result, error,
                   file>>

\* a network error, or a status >= 400 refused by validateStatus
SignInFails ==
    /\ pc = "signIn"
    /\ log' = Append(log,
          [op |-> "signIn", ok |-> FALSE,
           cookie |-> CookieHeader(SetCookies(loginPageResponse[1])),
           csrfToken |-> CsrfToken(loginPageResponse[1].data)])
    /\ Throw(LoginError(AxiosError("signIn")))
    /\ UNCHANGED <<maxCompanies, hitsPerPage, numPages, page, allCompanyIds,
                   i, allCompanies, session, loginPageResponse, loginResponse>>

\* const allCookies = [...loginPage set-cookie, ...login set-cookie]
AllCookies == SetCookies(loginPageResponse[1]) \o SetCookies(loginResponse[1])

\* login, steps 3 to 5: GET the portal with the cookies so far, then set the
\* session from all the cookies and the portal's CSRF token
Portal ==
    /\ pc = "portal"
    /\ \E waasResponse \in PortalResponses :
          /\ log' = Append(log, [op |-> "portal", ok |-> TRUE,
                                 cookie |-> CookieHeader(AllCookies),
                                 response |-> waasResponse])
          /\ session' = Some([cookies |-> CookieHeader(AllCookies
                                             \o SetCookies(waasResponse)),
                              csrfToken |-> CsrfToken(waasResponse.data)])
    /\ pc' = "fetch"
    /\ UNCHANGED <<maxCompanies, hitsPerPage, numPages, page, allCompanyIds,
                   i, allCompanies, loginPageResponse, loginResponse, result,
                   error, file>>

PortalFails ==
    /\ pc = "portal"
    /\ log' = Append(log, [op |-> "portal", ok |-> FALSE,
                           cookie |-> CookieHeader(AllCookies)])
    /\ Throw(LoginError(AxiosError("portal")))
    /\ UNCHANGED <<maxCompanies, hitsPerPage, numPages, page, allCompanyIds,
                   i, allCompanies, session, loginPageResponse, loginResponse>>

\* fetchCompanyDetails: POST the batch with the session's cookies and token
FetchCompanyDetails ==
    /\ pc = "fetch"
    /\ session # Null
    /\ \E response \in CompanyResponses(Batch) :
          /\ log' = Append(log, [op |-> "fetch", ok |-> TRUE, ids |-> Batch,
                                 cookie |-> session[1].cookies,
                                 csrfToken |-> session[1].csrfToken,
                                 response |-> response])
          /\ allCompanies' = allCompanies \o OrEmpty(response, "companies")
    /\ IF DelayAfterBatch
       THEN pc' = "batchDelay" /\ i' = i
       ELSE pc' = "batches" /\ i' = i + batchSize
    /\ UNCHANGED <<maxCompanies, hitsPerPage, numPages, page, allCompanyIds,
                   session, loginPageResponse, loginResponse, result, error,
                   file>>

FetchCompanyDetailsFails ==
    /\ pc = "fetch"
    /\ session # Null
    /\ log' = Append(log, [op |-> "fetch", ok |-> FALSE, ids |-> Batch,
                           cookie |-> session[1].cookies,
                           csrfToken |-> session[1].csrfToken])
    /\ Throw(AxiosError("fetch"))
    /\ UNCHANGED <<maxCompanies, hitsPerPage, numPages, page, allCompanyIds,
                   i, allCompanies, session, loginPageResponse, loginResponse>>

\* await new Promise(resolve => setTimeout(resolve, 2000)), then i += batchSize
BatchDelay ==
    /\ pc = "batchDelay"
    /\ log' = Append(log, [op |-> "delay", ms |-> BatchDelayMs])
    /\ i' = i + batchSize
    /\ pc' = "batches"
    /\ UNCHANGED <<maxCompanies, hitsPerPage, numPages, page, allCompanyIds,
                   allCompanies, session, loginPageResponse, loginResponse,
                   result, error, file>>

\* The fetch loop ends: format and return
ExtractDataReturn ==
    /\ pc = "batches"
    /\ ~MoreBatches
    /\ result' = Some(formatCompanyData(allCompanies))
    /\ pc' = "returned"
    /\ UNCHANGED <<maxCompanies, hitsPerPage, numPages, page, allCompanyIds,
                   i, allCompanies, session, loginPageResponse, loginResponse,
                   error, file, log>>

\* main: fs.writeFile('yc_companies_data.json', JSON.stringify(data, null, 2))
WriteFile ==
    /\ pc = "returned"
    /\ file' = result
    /\ log' = Append(log, [op |-> "writeFile"])
    /\ pc' = "done"
    /\ UNCHANGED <<maxCompanies, hitsPerPage, numPages, page, allCompanyIds,
                   i, allCompanies, session, loginPageResponse, loginResponse,
                   result, error>>

Next ==
    \/ ExtractDataBegin
    \/ FetchCompanyIds
    \/ FetchCompanyIdsFails
    \/ DiscoveryDelay
    \/ DiscoveryEnd
    \/ FetchCompanyDetailsBegin
    \/ LoginPage
    \/ LoginPageFails
    \/ SignIn
    \/ SignInFails
    \/ Portal
    \/ PortalFails
    \/ FetchCompanyDetails
    \/ FetchCompanyDetailsFails
    \/ BatchDelay
    \/ ExtractDataReturn
    \/ WriteFile

Spec == Init /\ [][Next]_vars

----------------------------------------------------------------------------
(* Reading the history *)

RequestOps == {"discovery", "loginPage", "signIn", "portal", "fetch"}

LoginOps == {"loginPage", "signIn", "portal"}

\* The positions of `log` that hold an event of one of `ops`
Positions(ops) == { k \in 1 .. Len(log) : log[k].op \in ops }

DiscoveryCalls == SelectSeq(log, LAMBDA e : e.op = "discovery")

FetchCalls == SelectSeq(log, LAMBDA e : e.op = "fetch")

\* The identifiers a discovery call returned (none if it failed)
HitsOf(e) ==
    IF e.ok /\ e.response.results # << >>
    THEN [k \in 1 .. Len(e.response.results[1].hits) |->
              e.response.results[1].hits[k].company_id]
    ELSE << >>

\* All the identifiers discovery returned, in page order
Discovered == Concat([k \in 1 .. Len(DiscoveryCalls) |-> HitsOf(DiscoveryCalls[k])])

\* All the identifiers handed to the Fetcher, in call order
FetchedIds == Concat([k \in 1 .. Len(FetchCalls) |-> FetchCalls[k].ids])

\* The Records a fetch call returned (none if it failed or had no such field)
RecordsOf(e) ==
    IF e.ok /\ "companies" \in DOMAIN e.response THEN e.response.companies
    ELSE << >>

\* All the Records the Fetcher returned, in batch order then server order
Fetched == Concat([k \in 1 .. Len(FetchCalls) |-> RecordsOf(FetchCalls[k])])

Take(s, n) == SubSeq(s, 1, IF n < Len(s) THEN n ELSE Len(s))

IsPrefix(s, t) == Len(s) <= Len(t) /\ s = SubSeq(t, 1, Len(s))

\* extractData has returned a value
Returned == pc \in {"returned", "done"}

\* the run is over
Finished == pc \in {"done", "exit1"}

----------------------------------------------------------------------------
(* Claims *)

\* C1: with targetCount = 0 the run issues no request at all (no discovery,
\* no login, no fetch), cannot fail, and extractData returns the empty list.
C1_ZeroTargetNoNetwork ==
    maxCompanies = 0 =>
        /\ Positions(RequestOps) = {}
        /\ pc \in {"main", "discovery", "returned", "done"}
        /\ Returned => result = Some(<< >>)

C1_Witness == maxCompanies = 0 /\ pc = "done" /\ result = Some(<< >>)

\* C2: with targetCount in 1..100, as soon as the run has done anything it
\* has made one discovery call, with page 0 and pageSize = targetCount, and
\* it never makes another, whatever the call returned.
C2_OneDiscoveryPage ==
    maxCompanies \in 1 .. 100 =>
        IF log = << >>
        THEN pc \in {"main", "discovery"}
        ELSE /\ Len(DiscoveryCalls) = 1
             /\ log[1].op = "discovery"
             /\ log[1].page = 0
             /\ log[1].hitsPerPage = maxCompanies

C2_Witness ==
    /\ maxCompanies = 45
    /\ pc = "done"
    /\ Len(DiscoveryCalls) = 1
    /\ Len(HitsOf(DiscoveryCalls[1])) = 1

\* C3: with targetCount > 100 every discovery call asks for 100 hits; the
\* identifiers handed to the Fetcher are at any time a prefix of the first
\* targetCount identifiers discovered (in page order), never more than
\* targetCount of them, and are exactly those once extractData has returned.
C3_TruncatedToTarget ==
    maxCompanies > 100 =>
        /\ \A k \in 1 .. Len(DiscoveryCalls) :
              DiscoveryCalls[k].hitsPerPage = 100 /\ DiscoveryCalls[k].page = k - 1
        /\ Len(FetchedIds) <= maxCompanies
        /\ IsPrefix(FetchedIds, Take(Discovered, maxCompanies))
        /\ Returned => FetchedIds = Take(Discovered, maxCompanies)

C3_Witness ==
    /\ maxCompanies = 150
    /\ pc = "done"
    /\ Len(DiscoveryCalls) = 2
    /\ Len(Discovered) = 200
    /\ Len(FetchedIds) = 150

CeilDiv20(n) == (n + 19) \div 20

\* C4: the batches handed to the Fetcher are non-empty, of at most 20
\* identifiers, all but the latest of exactly 20, and concatenated in call
\* order they are a prefix of the identifier list; once extractData has
\* returned a non-empty list of n identifiers there were ceil(n/20) calls
\* and the batches cover the whole list.
C4_Batching ==
    LET n == Len(allCompanyIds)
        calls == FetchCalls
    IN  /\ \A k \in 1 .. Len(calls) :
              /\ Len(calls[k].ids) \in 1 .. 20
              /\ k < Len(calls) => Len(calls[k].ids) = 20
        /\ calls # << >> => IsPrefix(FetchedIds, allCompanyIds)
        /\ (Returned /\ n > 0) =>
              /\ Len(calls) = CeilDiv20(n)
              /\ FetchedIds = allCompanyIds

C4_Witness ==
    /\ pc = "done"
    /\ Len(allCompanyIds) = 45
    /\ [k \in 1 .. Len(FetchCalls) |-> Len(FetchCalls[k].ids)] = <<20, 20, 5>>

\* The request that failed, if any: the position in `log` of a failed request
FailedAt == { k \in Positions(RequestOps) : ~log[k].ok }

\* The error an exception wraps, or the exception itself
RootCause(e) == IF "cause" \in DOMAIN e THEN e.cause ELSE e

NoCsrfPattern(data) == data.csrfMeta = Null \/ data.csrfMeta = Some("")

\* C6: once the login page has come back without a CSRF token, the run has
\* ended with the login error, the login page is the last request it made
\* (no sign-in POST, no portal GET) and the session is unset.
C6_MissingCsrfAborts ==
    \A k \in Positions({"loginPage"}) :
        (log[k].ok /\ NoCsrfPattern(log[k].response.data)) =>
            /\ k = Len(log)
            /\ pc = "exit1"
            /\ error = Some(LoginError(CsrfError))
            /\ Positions({"signIn", "portal"}) = {}
            /\ session = Null
            /\ result = Null

C6_Witness ==
    /\ pc = "exit1"
    /\ log # << >>
    /\ log[Len(log)].op = "loginPage"
    /\ log[Len(log)].ok
    /\ log[Len(log)].response.data.csrfMeta = Some("")

TitleOrEmpty(job) == IF "title" \in DOMAIN job THEN job.title ELSE ""

JobsOrNone(company) == IF "jobs" \in DOMAIN company THEN company.jobs ELSE << >>

\* C7: the list extractData returns has one Output Record per Record the
\* Fetcher returned, in the same order (the team size and the name tell the
\* records apart), each with one job per job of its Record, in the same
\* order (the titles tell the jobs apart).
C7_OutputMatchesFetched ==
    Returned =>
        LET out == result[1]
            fetched == Fetched
        IN  /\ Len(out) = Len(fetched)
            /\ \A k \in 1 .. Len(fetched) :
                  /\ out[k].team_size = fetched[k].team_size
                  /\ Len(out[k].jobs) = Len(JobsOrNone(fetched[k]))
                  /\ \A j \in 1 .. Len(out[k].jobs) :
                        out[k].jobs[j].name = TitleOrEmpty(fetched[k].jobs[j])

C7_Witness ==
    /\ pc = "done"
    /\ Len(FetchCalls) = 3
    /\ Len(result[1]) = 44
    /\ \E k \in 1 .. 43 : /\ Len(result[1][k].jobs) = 2
                          /\ result[1][k].jobs[1].name = ""
                          /\ result[1][k + 1].jobs = << >>

\* C8: when the run is over, a discovery call is followed by the 1000ms
\* delay if and only if a later discovery call exists.
C8_DelayOnlyBetweenCalls ==
    Finished =>
        \A k \in Positions({"discovery"}) :
            (k < Len(log) /\ log[k + 1] = [op |-> "delay", ms |-> 1000])
                <=> (\E j \in Positions({"discovery"}) : j > k)

\* The cookie lines the responses of the login flow set, in response order
LinesSet ==
    Concat([k \in 1 .. Len(log) |->
              IF log[k].op \in LoginOps /\ log[k].ok
                 /\ "set-cookie" \in DOMAIN log[k].response.headers
              THEN log[k].response.headers["set-cookie"] ELSE << >>])

\* C9: the Cookie header of every fetch carries each cookie name the login
\* flow set exactly once, with the value of the latest response that set it.
C9_CookiesLastWriteWins ==
    \A k \in Positions({"fetch"}) :
        LET header == log[k].cookie
            names == { LinesSet[m].pair.name : m \in 1 .. Len(LinesSet) }
            latest(n) == LinesSet[CHOOSE m \in 1 .. Len(LinesSet) :
                            /\ LinesSet[m].pair.name = n
                            /\ \A m2 \in 1 .. Len(LinesSet) :
                                  LinesSet[m2].pair.name = n => m2 <= m].pair.value
        IN  \A n \in names :
               /\ Cardinality({ m \in 1 .. Len(header) : header[m].name = n }) = 1
               /\ \A m \in 1 .. Len(header) :
                     header[m].name = n => header[m].value = latest(n)

\* What C10 says of one state: login is not started before the discovery
\* loop is over, it runs at most once, right before the first fetch, and
\* every fetch is sent with the cookies and the token of the one session.
C10_State ==
    /\ Cardinality(Positions({"loginPage"})) <= 1
    /\ \A k \in Positions(LoginOps) : \A j \in Positions({"discovery"}) : j < k
    /\ \A k \in Positions(LoginOps) : \A j \in Positions({"fetch"}) : k < j
    /\ pc \in {"main", "discovery", "discoveryDelay"} => Positions(LoginOps) = {}
    /\ \A k \in Positions({"fetch"}) :
          /\ session # Null
          /\ log[k].cookie = session[1].cookies
          /\ log[k].csrfToken = session[1].csrfToken
          /\ \E m \in Positions({"portal"}) :
                /\ log[m].ok
                /\ \A j \in Positions({"fetch"}) : m < j
                /\ \A j \in (m + 1) .. k : log[j].op \in {"fetch", "delay"}
          /\ (\A j \in Positions({"fetch"}) : k <= j) =>
                /\ k > 3
                /\ log[k - 1].op = "portal"
                /\ log[k - 2].op = "signIn"
                /\ log[k - 3].op = "loginPage"

====
